---- MODULE Spec2Model ----
(***************************************************************************)
(* A model of the readlogs parsing engine (src/src/parsers/common.rs and   *)
(* src/src/parsers/ios.rs).  Text is a sequence of one-character strings.  *)
(* Every recognizer is an operator from the input text to an outcome       *)
(*     [st |-> "ok" | "err" | "panic", out |-> value, rest |-> remainder]  *)
(* where "err" is nom's recoverable Err::Error and "panic" is an abort of  *)
(* the program (an `unwrap` on None/Err, or a panicking library call).     *)
(***************************************************************************)
EXTENDS Integers, Sequences, FiniteSets, TLC

VARIABLES input, pc, result, model

vars == <<input, pc, result, model>>

----------------------------------------------------------------------------
(* Bounds of the checked input sets. *)

MaxHeaderLen == 6

MaxKeyLen == 6

MaxBodyPieces == 4

MaxOdd == 2

MaxGlyphs == 3

MaxTagTail == 4

MaxMessagePieces == 5

MaxContentPieces == 5

MaxMembers == 2

MaxBatch == 3

----------------------------------------------------------------------------
(* Text helpers. *)

NL == "\n"

Take(s, n) == SubSeq(s, 1, n)

Drop(s, n) == SubSeq(s, n + 1, Len(s))

StartsWith(s, t) == Len(t) <= Len(s) /\ Take(s, Len(t)) = t

Contains(s, c) == \E i \in 1..Len(s) : s[i] = c

\* All texts over alphabet A of length at most n.
Texts(A, n) == UNION {[1..k -> A] : k \in 0..n}

\* The texts of a sequence, one after the other.
RECURSIVE Concat(_)
Concat(ps) == IF ps = <<>> THEN <<>> ELSE Head(ps) \o Concat(Tail(ps))

\* Horizontal space, as nom's space0 takes it.
HSpace == {" ", "\t"}

\* White space, as nom's multispace0 and Rust's str::trim take it.
WSpace == {" ", "\t", "\r", NL}

Digits == {"0", "1", "2", "3", "4", "5", "6", "7", "8", "9"}

\* Length of the longest prefix of s whose characters satisfy "in S" (in = TRUE)
\* or "not in S" (in = FALSE).
RECURSIVE SpanLen(_, _, _)
SpanLen(s, S, in) ==
    IF s = <<>> \/ ((s[1] \in S) # in) THEN 0
    ELSE 1 + SpanLen(Tail(s), S, in)

RECURSIVE TrimStart(_)
TrimStart(s) == IF s # <<>> /\ s[1] \in WSpace THEN TrimStart(Tail(s)) ELSE s

RECURSIVE TrimEnd(_)
TrimEnd(s) ==
    IF s # <<>> /\ s[Len(s)] \in WSpace THEN TrimEnd(Take(s, Len(s) - 1)) ELSE s

\* Rust's str::trim.
Trim(s) == TrimEnd(TrimStart(s))

----------------------------------------------------------------------------
(* Outcomes and the nom primitives used by the parsers. *)

Ok(o, r) == [st |-> "ok", out |-> o, rest |-> r]

Err == [st |-> "err", out |-> <<>>, rest |-> <<>>]

Panic == [st |-> "panic", out |-> <<>>, rest |-> <<>>]

\* nom::bytes::complete::tag
Tag(t, s) == IF StartsWith(s, t) THEN Ok(t, Drop(s, Len(t))) ELSE Err

\* Index (0-based) of the first occurrence of t in s, or -1.
RECURSIVE FindFrom(_, _, _)
FindFrom(s, t, i) ==
    IF i + Len(t) > Len(s) THEN -1
    ELSE IF StartsWith(Drop(s, i), t) THEN i
    ELSE FindFrom(s, t, i + 1)

\* nom::bytes::complete::take_until
TakeUntil(t, s) ==
    LET i == FindFrom(s, t, 0)
    IN  IF i < 0 THEN Err ELSE Ok(Take(s, i), Drop(s, i))

\* nom::bytes::complete::is_not: one or more characters not in S.
IsNot(S, s) ==
    LET n == SpanLen(s, S, FALSE)
    IN  IF n = 0 THEN Err ELSE Ok(Take(s, n), Drop(s, n))

\* nom::bytes::complete::is_a: one or more characters in S.
IsA(S, s) ==
    LET n == SpanLen(s, S, TRUE)
    IN  IF n = 0 THEN Err ELSE Ok(Take(s, n), Drop(s, n))

\* nom::character::complete::digit1
Digit1(s) == IsA(Digits, s)

\* nom::character::complete::space0: the text left after the horizontal space.
Space0(s) == Drop(s, SpanLen(s, HSpace, TRUE))

\* nom::character::complete::multispace0: the text left after the white space.
Multispace0(s) == Drop(s, SpanLen(s, WSpace, TRUE))

\* many1(tag(t)): the text left after one or more t, or Err.
Many1Tag(t, s) ==
    LET n == SpanLen(s, {t[1]}, TRUE)
    IN  IF n = 0 THEN Err ELSE Ok(Take(s, n), Drop(s, n))

----------------------------------------------------------------------------
(* common.rs: section_header *)

\* A section_header that wants as many decoration characters after the name as
\* before it.
section_header_balanced(s) ==
    LET d1 == Many1Tag(<<"=">>, s)
    IN  IF d1.st # "ok" THEN Err
        ELSE LET name == TakeUntil(<<"=">>, Space0(d1.rest))
             IN  IF name.st # "ok" THEN Err
                 ELSE LET d2 == Many1Tag(<<"=">>, Space0(name.rest))
                      IN  IF d2.st # "ok" \/ Len(d2.out) # Len(d1.out) THEN Err
                          ELSE Ok(Trim(name.out), d2.rest)

section_header(s) ==
    LET d1 == Many1Tag(<<"=">>, s)
    IN  IF d1.st # "ok" THEN Err
        ELSE LET name == TakeUntil(<<"=">>, Space0(d1.rest))
             IN  IF name.st # "ok" THEN Err
                 ELSE LET d2 == Many1Tag(<<"=">>, Space0(name.rest))
                      IN  IF d2.st # "ok" THEN Err
                          ELSE Ok(Trim(name.out), d2.rest)

----------------------------------------------------------------------------
(* common.rs: bucket, bucketed_flag, key_maybe_enabled_value *)

None == <<>>

Some(v) == <<v>>

Bucket(code, val) == [country_code |-> code, value |-> val]

Generic(text) == [kind |-> "Generic", text |-> text, buckets |-> <<>>]

BucketedFlag(bs) == [kind |-> "BucketedFlag", text |-> <<>>, buckets |-> bs]

KeyValue(k, v) == [kind |-> "KeyValue", key |-> k, enabled |-> FALSE, value |-> Some(v)]

KeyEnabledValue(k, e, v) == [kind |-> "KeyEnabledValue", key |-> k, enabled |-> e, value |-> v]

\* separated_pair(is_not(":\n"), tag(":"), digit1)
bucket(s) ==
    LET code == IsNot({":", NL}, s)
    IN  IF code.st # "ok" THEN Err
        ELSE LET colon == Tag(<<":">>, code.rest)
             IN  IF colon.st # "ok" THEN Err
                 ELSE LET val == Digit1(colon.rest)
                      IN  IF val.st # "ok" THEN Err
                          ELSE Ok(Bucket(code.out, val.out), val.rest)

\* The loop of separated_list1(tag(","), bucket) after the elements in acc:
\* a failing separator or a failing element ends the list before the separator.
RECURSIVE SeparatedMore(_, _)
SeparatedMore(acc, s) ==
    LET sep == Tag(<<",">>, s)
    IN  IF sep.st # "ok" THEN Ok(acc, s)
        ELSE LET b == bucket(sep.rest)
             IN  IF b.st # "ok" THEN Ok(acc, s)
                 ELSE SeparatedMore(Append(acc, b.out), b.rest)

\* separated_list1(tag(","), bucket)
separated_list1(s) ==
    LET b == bucket(s)
    IN  IF b.st # "ok" THEN Err ELSE SeparatedMore(<<b.out>>, b.rest)

\* peek(alt((tag("\n"), eof)))
BucketedEnd(s) == s = <<>> \/ s[1] = NL

bucketed_flag(s) ==
    LET l == separated_list1(s)
    IN  IF l.st = "ok" /\ BucketedEnd(l.rest) THEN l ELSE Err

\* A parse_key without the verify step.
parse_key_unverified(s) ==
    LET k == TakeUntil(<<":", " ">>, s)
    IN  IF k.st # "ok" THEN Err ELSE Ok(k.out, Drop(k.rest, 2))

\* verify(take_until(": "), |key| !key.contains('\n')) then tag(": ")
parse_key(s) ==
    LET k == TakeUntil(<<":", " ">>, s)
    IN  IF k.st # "ok" \/ Contains(k.out, NL) THEN Err
        ELSE Ok(k.out, Drop(k.rest, 2))

Enabled == <<"e", "n", "a", "b", "l", "e", "d">>

Disabled == <<"d", "i", "s", "a", "b", "l", "e", "d">>

\* A parse_enabled that knows only the `enabled` marker.
parse_enabled_only(s) ==
    IF StartsWith(s, Enabled) THEN Ok(TRUE, Drop(s, Len(Enabled))) ELSE Err

\* alt((value(true, tag("enabled")), value(false, tag("disabled"))))
parse_enabled(s) ==
    IF StartsWith(s, Enabled) THEN Ok(TRUE, Drop(s, Len(Enabled)))
    ELSE IF StartsWith(s, Disabled) THEN Ok(FALSE, Drop(s, Len(Disabled)))
    ELSE Err

\* alt((map(bucketed_flag, BucketedFlag), map(is_not("\n|"), Generic(trim))))
parse_value(s) ==
    LET b == bucketed_flag(s)
    IN  IF b.st = "ok" THEN Ok(BucketedFlag(b.out), b.rest)
        ELSE LET g == IsNot({NL, "|"}, s)
             IN  IF g.st = "ok" THEN Ok(Generic(Trim(g.out)), g.rest) ELSE Err

\* peek(alt((tag("\n"), tag("|"), eof)))
ValueEnd(s) == s = <<>> \/ s[1] \in {NL, "|"}

key_maybe_enabled_value(s) ==
    IF StartsWith(s, <<"-", "-">>) THEN Err
    ELSE LET k == parse_key(s)
         IN  IF k.st # "ok" THEN Err
             ELSE LET e  == parse_enabled(k.rest)
                      s1 == Space0(IF e.st = "ok" THEN e.rest ELSE k.rest)
                      v  == parse_value(s1)
                      s2 == IF v.st = "ok" THEN v.rest ELSE s1
                  IN  IF ~ValueEnd(s2) THEN Err
                      ELSE IF e.st = "ok"
                          THEN Ok(KeyEnabledValue(Trim(k.out), e.out,
                                     IF v.st = "ok" THEN Some(v.out) ELSE None), s2)
                      ELSE IF v.st = "ok" THEN Ok(KeyValue(Trim(k.out), v.out), s2)
                      ELSE Panic

----------------------------------------------------------------------------
(* common.rs: naive_date_time *)

RECURSIVE StripZeros(_)
StripZeros(ds) == IF ds # <<>> /\ ds[1] = "0" THEN StripZeros(Tail(ds)) ELSE ds

DigitVal(c) ==
    CASE c = "0" -> 0 [] c = "1" -> 1 [] c = "2" -> 2 [] c = "3" -> 3 [] c = "4" -> 4
      [] c = "5" -> 5 [] c = "6" -> 6 [] c = "7" -> 7 [] c = "8" -> 8 [] c = "9" -> 9

\* a <= b for digit runs of the same length.
RECURSIVE DigitsLeq(_, _)
DigitsLeq(a, b) ==
    IF a = <<>> THEN TRUE
    ELSE IF DigitVal(a[1]) # DigitVal(b[1]) THEN DigitVal(a[1]) < DigitVal(b[1])
    ELSE DigitsLeq(Tail(a), Tail(b))

\* i32::MAX and u32::MAX, in digits.
I32Max == <<"2", "1", "4", "7", "4", "8", "3", "6", "4", "7">>

U32Max == <<"4", "2", "9", "4", "9", "6", "7", "2", "9", "5">>

\* Whether str::parse::<iN/uN>() succeeds on the digit run ds: its value is at
\* most max (leading zeros are accepted and do not count).
Fits(ds, max) ==
    LET d == StripZeros(ds)
    IN  Len(d) < Len(max) \/ (Len(d) = Len(max) /\ DigitsLeq(d, max))

\* The value of a digit run that fits.  Values above 1000000 are all reported as
\* 1000000: each is beyond every range chrono accepts, and none is used otherwise.
RECURSIVE ValueFrom(_, _)
ValueFrom(acc, ds) ==
    IF ds = <<>> THEN acc
    ELSE LET v == 10 * acc + DigitVal(ds[1])
         IN  ValueFrom(IF v > 1000000 THEN 1000000 ELSE v, Tail(ds))

Parsed(ds) == ValueFrom(0, ds)

IsLeapYear(y) == y % 4 = 0 /\ (y % 100 # 0 \/ y % 400 = 0)

DaysInMonth(y, m) ==
    IF m = 2 THEN (IF IsLeapYear(y) THEN 29 ELSE 28)
    ELSE IF m \in {4, 6, 9, 11} THEN 30 ELSE 31

\* NaiveDate::from_ymd panics unless this holds.
ValidDate(y, m, d) ==
    /\ y <= 262143
    /\ m \in 1..12
    /\ d >= 1 /\ d <= DaysInMonth(y, m)

\* NaiveDate::and_hms_milli (and_hms with milli = 0) panics unless this holds.
ValidTime(h, mi, s, ms) == h < 24 /\ mi < 60 /\ s < 60 /\ ms < 2000

DateTime(y, m, d, h, mi, s, ms) ==
    [year |-> y, month |-> m, day |-> d, hour |-> h, minute |-> mi, second |-> s,
     milli |-> ms]

\* tuple((p1, p2, ...)) over digit1 (kind "d") and tag (kind "t") parts: the
\* outputs of the digit1 parts, in order.
RECURSIVE Fields(_, _, _)
Fields(parts, acc, s) ==
    IF parts = <<>> THEN Ok(acc, s)
    ELSE LET p == Head(parts)
             r == IF p.kind = "d" THEN Digit1(s) ELSE Tag(p.text, s)
         IN  IF r.st # "ok" THEN Err
             ELSE Fields(Tail(parts), IF p.kind = "d" THEN Append(acc, r.out) ELSE acc,
                         r.rest)

D1 == [kind |-> "d", text |-> <<>>]

T(sep) == [kind |-> "t", text |-> sep]

\* naive_date_time from the month on: the field tuple, from_ymd, the optional
\* millisecond, and_hms_milli / and_hms, the optional ending.  remainder.s is the
\* text after the year.
NdtTail(year, remainder, millisecond_separator, ending) ==
    LET f == Fields(<<D1, T(remainder.ymd), D1, T(remainder.ymd_hms), D1,
                      T(remainder.hms), D1, T(remainder.hms), D1>>, <<>>, remainder.s)
    IN  IF f.st # "ok" THEN Err
        ELSE IF ~Fits(f.out[1], U32Max) \/ ~Fits(f.out[2], U32Max) THEN Panic
        ELSE IF ~ValidDate(year, Parsed(f.out[1]), Parsed(f.out[2])) THEN Panic
        ELSE LET ms == IF millisecond_separator = None THEN Ok(<<"0">>, f.rest)
                       ELSE Fields(<<T(millisecond_separator[1]), D1>>, <<>>, f.rest)
             IN  IF ms.st # "ok" THEN Err
                 ELSE LET msd == IF millisecond_separator = None THEN <<"0">> ELSE ms.out[1]
                      IN  IF \E d \in {f.out[3], f.out[4], f.out[5], msd} : ~Fits(d, U32Max)
                              THEN Panic
                          ELSE IF ~ValidTime(Parsed(f.out[3]), Parsed(f.out[4]),
                                             Parsed(f.out[5]), Parsed(msd)) THEN Panic
                          ELSE LET e == IF ending = None THEN Ok(<<>>, ms.rest)
                                        ELSE Tag(ending[1], ms.rest)
                               IN  IF e.st # "ok" THEN Err
                                   ELSE Ok(DateTime(year, Parsed(f.out[1]), Parsed(f.out[2]),
                                                    Parsed(f.out[3]), Parsed(f.out[4]),
                                                    Parsed(f.out[5]), Parsed(msd)), e.rest)

naive_date_time(assumed_year, ymd_separator, ymd_hms_separator, hms_separator, millisecond_separator, ending, s) ==
    LET seps(r) == [ymd |-> ymd_separator, ymd_hms |-> ymd_hms_separator,
                    hms |-> hms_separator, s |-> r]
    IN  IF assumed_year # None
            THEN NdtTail(assumed_year[1], seps(s), millisecond_separator, ending)
        ELSE LET y == Fields(<<D1, T(ymd_separator)>>, <<>>, s)
             IN  IF y.st # "ok" THEN Err
                 ELSE IF ~Fits(y.out[1], I32Max) THEN Panic
                 ELSE NdtTail(Parsed(y.out[1]), seps(y.rest), millisecond_separator, ending)

\* The timestamp grammar of the iOS logs (ios.rs, metadata).
ios_date_time(s) ==
    naive_date_time(None, <<"/">>, <<" ">>, <<":">>, Some(<<":">>), None, s)

----------------------------------------------------------------------------
(* ios.rs: level, metadata *)

\* The characters of the five severity glyphs: four one-character hearts, and the
\* red heart, which is a heart character followed by a variation selector.
Blue == "<blue heart>"

Green == "<green heart>"

Yellow == "<yellow heart>"

Orange == "<orange heart>"

Heart == "<heavy heart>"

Vs16 == "<variation selector 16>"

GlyphChars == {Blue, Green, Yellow, Orange, Heart, Vs16}

\* <LogLevel as FromStr>::from_str: the severity of exactly one glyph, or None.
LogLevelFromStr(heart) ==
    CASE heart = <<Blue>> -> Some("Verbose")
      [] heart = <<Green>> -> Some("Debug")
      [] heart = <<Yellow>> -> Some("Info")
      [] heart = <<Orange>> -> Some("Warn")
      [] heart = <<Heart, Vs16>> -> Some("Error")
      [] OTHER -> None

\* map(is_a(glyphs), |heart| heart.parse().unwrap())
level(s) ==
    LET heart == IsA(GlyphChars, s)
    IN  IF heart.st # "ok" THEN Err
        ELSE IF LogLevelFromStr(heart.out) = None THEN Panic
        ELSE Ok(LogLevelFromStr(heart.out)[1], heart.rest)

LogEntryMetadata(file, line, symbol) == [file |-> file, line |-> line, symbol |-> symbol]

\* verify(take_until(close), |s| !s.contains('\n'))
symbol_until(close, s) ==
    LET r == TakeUntil(close, s)
    IN  IF r.st = "ok" /\ ~Contains(r.out, NL) THEN r ELSE Err

\* The bracketed tag: tuple((tag("["), take_until(":"), tag(":"), is_not(" ]"),
\* space0, alt((symbol until "]:", symbol until "] ")), alt((tag("]:"), tag("] "))))).
bracketed_tag(s) ==
    LET open == Tag(<<"[">>, s)
    IN  IF open.st # "ok" THEN Err
        ELSE LET file == TakeUntil(<<":">>, open.rest)
             IN  IF file.st # "ok" THEN Err
                 ELSE LET line == IsNot({" ", "]"}, Drop(file.rest, 1))
                      IN  IF line.st # "ok" THEN Err
                          ELSE LET s1  == Space0(line.rest)
                                   a   == symbol_until(<<"]", ":">>, s1)
                                   sym == IF a.st = "ok" THEN a
                                          ELSE symbol_until(<<"]", " ">>, s1)
                               IN  IF sym.st # "ok" THEN Err
                                   ELSE LET c1 == Tag(<<"]", ":">>, sym.rest)
                                            c  == IF c1.st = "ok" THEN c1
                                                  ELSE Tag(<<"]", " ">>, sym.rest)
                                        IN  IF c.st # "ok" THEN Err
                                            ELSE Ok(LogEntryMetadata(file.out, line.out,
                                                                     sym.out), c.rest)

\* opt(terminated(level, space0)): the level and the text after it, or no level
\* and the text as it was.
opt_level(s) ==
    LET l == level(s)
    IN  IF l.st = "panic" THEN Panic
        ELSE IF l.st = "ok" THEN Ok(Some(l.out), Space0(l.rest))
        ELSE Ok(None, s)

\* opt(tuple((tag("["), ...))): the tag and the text after it, or no tag and the
\* text as it was.
opt_tag(s) ==
    LET m == bracketed_tag(s)
    IN  IF m.st = "ok" THEN Ok(Some(m.out), m.rest) ELSE Ok(None, s)

\* The value metadata returns: (remainder, (dt, lvl, meta)).
MetadataOk(dt, lvl, meta) == Ok([dt |-> dt, lvl |-> lvl, meta |-> meta.out], meta.rest)

\* metadata after the timestamp and after the level.
MetadataFromTag(dt, lvl) ==
    IF lvl.st # "ok" THEN lvl ELSE MetadataOk(dt, lvl.out, opt_tag(lvl.rest))

\* metadata after the timestamp.
MetadataFromLevel(dt) ==
    IF dt.st # "ok" THEN dt ELSE MetadataFromTag(dt.out, opt_level(Space0(dt.rest)))

metadata(s) == MetadataFromLevel(ios_date_time(s))

----------------------------------------------------------------------------
(* common.rs: message *)

\* The recognizer passed to message as its `metadata` argument, by name.
Recognize(lookahead, s) ==
    CASE lookahead = "metadata" -> metadata(s)

\* strings.join("\n")
RECURSIVE Join(_)
Join(strings) ==
    IF strings = <<>> THEN <<>>
    ELSE IF Len(strings) = 1 THEN strings[1]
    ELSE strings[1] \o <<NL>> \o Join(Tail(strings))

\* terminated(alt((is_not("\n"), take_until("\n"))), opt(newline))
message_line(s) ==
    LET a == IsNot({NL}, s)
        l == IF a.st = "ok" THEN a ELSE TakeUntil(<<NL>>, s)
    IN  IF l.st # "ok" THEN Err
        ELSE Ok(l.out, IF StartsWith(l.rest, <<NL>>) THEN Tail(l.rest) ELSE l.rest)

\* many_till(line, peek(alt((value((), metadata), value((), eof))))) with the
\* lines taken so far in strings: the lookahead is tried before every line, its
\* text is not consumed, and a line that consumes nothing is an error.
RECURSIVE many_till(_, _, _)

\* many_till after its line parser has returned f on s.
ManyTillLine(lookahead, strings, s, f) ==
    IF f.st # "ok" \/ f.rest = s THEN Err
    ELSE many_till(lookahead, Append(strings, f.out), f.rest)

\* many_till after its lookahead has returned g on s.
ManyTillLookahead(lookahead, strings, s, g) ==
    IF g.st = "panic" THEN Panic
    ELSE IF g.st = "ok" \/ s = <<>> THEN Ok(strings, s)
    ELSE ManyTillLine(lookahead, strings, s, message_line(s))

many_till(lookahead, strings, s) ==
    ManyTillLookahead(lookahead, strings, s, Recognize(lookahead, s))

\* A message that joins its lines with nothing between them.
message_unjoined(lookahead, s) ==
    LET r == many_till(lookahead, <<>>, s)
    IN  IF r.st = "ok" THEN Ok(Concat(r.out), r.rest) ELSE r

message(lookahead, s) ==
    LET r == many_till(lookahead, <<>>, s)
    IN  IF r.st = "ok" THEN Ok(Join(r.out), r.rest) ELSE r

----------------------------------------------------------------------------
(* ios.rs: log_entry, content *)

\* The decimal digits of a natural number, at least w of them.
RECURSIVE Decimal(_, _)
Decimal(n, w) ==
    IF n < 10 /\ w <= 1
        THEN <<SubSeq(<<"0", "1", "2", "3", "4", "5", "6", "7", "8", "9">>, n + 1, n + 1)[1]>>
    ELSE Decimal(n \div 10, w - 1) \o Decimal(n % 10, 1)

\* dt.to_string() of a DateTime<Utc>: "%Y-%m-%d %H:%M:%S%.f UTC", the year signed
\* when it has more than four digits, the fraction absent when it is zero, and a
\* millisecond of 1000 or more (a leap second) shown in the next second.
DateTimeToString(dt) ==
    (IF dt.year > 9999 THEN <<"+">> ELSE <<>>) \o Decimal(dt.year, 4) \o <<"-">>
    \o Decimal(dt.month, 2) \o <<"-">> \o Decimal(dt.day, 2) \o <<" ">>
    \o Decimal(dt.hour, 2) \o <<":">> \o Decimal(dt.minute, 2) \o <<":">>
    \o Decimal(dt.second + dt.milli \div 1000, 2)
    \o (IF dt.milli % 1000 = 0 THEN <<>> ELSE <<".">> \o Decimal(dt.milli % 1000, 3))
    \o <<" ", "U", "T", "C">>

LogEntry(timestamp, lvl, meta, msg) ==
    [timestamp |-> timestamp, level |-> lvl, meta |-> meta, message |-> msg]

\* log_entry after metadata and after the message.
LogEntryFromMessage(md, msg) ==
    IF msg.st # "ok" THEN msg
    ELSE Ok(LogEntry(DateTimeToString(md.dt), md.lvl, md.meta, msg.out), msg.rest)

\* log_entry after metadata: tuple((metadata, space0, common::message(metadata))).
LogEntryFromMetadata(m) ==
    IF m.st # "ok" THEN m
    ELSE LogEntryFromMessage(m.out, message("metadata", Space0(m.rest)))

log_entry(s) == LogEntryFromMetadata(metadata(s))

\* many0(log_entry) with the entries taken so far in logs: it ends, successfully,
\* where log_entry fails, and an entry that consumes nothing is an error.
RECURSIVE many0(_, _)

\* many0 after log_entry has returned r on s.
Many0Entry(logs, s, r) ==
    IF r.st = "panic" THEN Panic
    ELSE IF r.st = "err" THEN Ok(logs, s)
    ELSE IF r.rest = s THEN Err
    ELSE many0(Append(logs, r.out), r.rest)

many0(logs, s) == Many0Entry(logs, s, log_entry(s))

DEFAULT_LOGS_SECTION_NAME == "Logs"

Section(name, entries, subsections) ==
    [name |-> name, content |-> entries, subsections |-> subsections]

Content(information, logs) == [information |-> information, logs |-> logs]

\* content after many0: the map closure.
ContentFromLogs(r) ==
    IF r.st # "ok" THEN r
    ELSE Ok(Content(<<>>, <<Section(DEFAULT_LOGS_SECTION_NAME, r.out, <<>>)>>), r.rest)

\* A content that does not skip the white space before the first entry.
content_unskipped(s) == ContentFromLogs(many0(<<>>, s))

content(s) == ContentFromLogs(many0(<<>>, Multispace0(s)))

----------------------------------------------------------------------------
(* model.rs: Model, update *)

\* anyhow::Result: Ok(value) or Err(error); a handler's result carries the model
\* as the handler left it.
Done(m) == [st |-> "ok", model |-> m]

Failed(m, e) == [st |-> "err", model |-> m, e |-> e]

Aborted == [st |-> "panic"]

NoData == [tag |-> "NoData"]

Error(e) == [tag |-> "Error", e |-> e]

Fetching == [tag |-> "Fetching"]

Single(file) == [kind |-> "Single", file |-> file]

Multiple(files, active_filename) ==
    [kind |-> "Multiple", files |-> files, active_filename |-> active_filename]

Ready(object) == [tag |-> "Ready", object |-> object]

SearchQuery(min_log_level, string) == [min_log_level |-> min_log_level, string |-> string]

DefaultSearchQuery == SearchQuery("Error", "")

Tabs == {"Information", "Logs", "Raw"}

\* Model::create
create ==
    [state |-> NoData, platform |-> None, debug_log_url |-> "", tab |-> "Information",
     pending_query |-> DefaultSearchQuery, active_query |-> DefaultSearchQuery,
     ui_expanded |-> FALSE]

\* The app identifiers of log file names, in the order FinishedFetchBinary asks
\* for them.
AppIds == <<"Signal", "NotificationServiceExtension", "ShareAppExtension">>

LogFilename(app_id, at) == [app_id |-> app_id, at |-> at]

\* The file names of the model: two of the first two identifiers, one of the third.
LogFilenames ==
    {LogFilename(AppIds[1], "a"), LogFilename(AppIds[1], "b"),
     LogFilename(AppIds[2], "a"), LogFilename(AppIds[2], "b"),
     LogFilename(AppIds[3], "a")}

\* The place of a file name in LogFilename's Ord, the order of the BTreeMap's keys.
FilenameRank(k) ==
    (IF k.at = "a" THEN 0 ELSE 3)
    + (CHOOSE i \in 1..3 : AppIds[i] = k.app_id)

\* A member name that is not a log file name, and content that is not UTF-8.
BadName == [app_id |-> "none", at |-> "not a log file name"]

NotUtf8 == <<"not UTF-8">>

\* The texts of fetched files: one record, text that is no record, and a record
\* whose timestamp has month 13.
GoodText == <<"1", "/", "1", "/", "1", " ", "1", ":", "1", ":", "1", ":", "1", " ", "a">>

LeftoverText == <<"a">>

AbortingText == <<"1", "/", "1", "3", "/", "1", " ", "1", ":", "1", ":", "1", ":", "1">>

FileTexts == {GoodText, LeftoverText, AbortingText}

\* File::from_text(platform, text): the file of a text, a failure where the text
\* is not wholly parsed, or the abort of the parser.  Every platform's text is read
\* with the iOS grammar, the one at hand.
FileFromContent(r) ==
    IF r.st = "panic" THEN Panic
    ELSE IF r.st = "ok" /\ r.rest = <<>> THEN Ok(r.out, <<>>)
    ELSE Err

FileFromText(text) == FileFromContent(content(text))

\* from_text on each of the texts, as a table: a file, a failure, an abort.
Files ==
    [text \in FileTexts |->
        IF text = GoodText THEN [st |-> "ok", out |-> [text |-> text]]
        ELSE IF text = LeftoverText THEN [st |-> "err"]
        ELSE [st |-> "panic"]]

\* The table is what from_text returns.
FilesAreParsed == \A text \in FileTexts : Files[text].st = FileFromText(text).st

\* BTreeMap::insert
Insert(files, k, v) == [n \in (DOMAIN files) \cup {k} |-> IF n = k THEN v ELSE files[n]]

\* The last key, in the map's order, of a set of keys.
Last(keys) == CHOOSE k \in keys : \A j \in keys : FilenameRank(j) <= FilenameRank(k)

\* The first key, in the map's order, of an identifier, where the last is asked for.
first_for_app_id(files, app_id) ==
    IF {k \in DOMAIN files : k.app_id = app_id} = {} THEN None
    ELSE Some(CHOOSE k \in {n \in DOMAIN files : n.app_id = app_id} :
                 \A j \in {n \in DOMAIN files : n.app_id = app_id} :
                     FilenameRank(k) <= FilenameRank(j))

\* let last_for_app_id = |app_id| files.keys().filter(|k| k.app_id == app_id).last()
last_for_app_id(files, app_id) ==
    IF {k \in DOMAIN files : k.app_id = app_id} = {} THEN None
    ELSE Some(Last({k \in DOMAIN files : k.app_id = app_id}))

\* A member of the archive: its name as parsed (or BadName) and its content, a
\* text or bytes that are not UTF-8.
Member(name, bytes) == [name |-> name, bytes |-> bytes]

\* The loop of FinishedFetchBinary from member i on, with the map built so far: the
\* map of all members, or the first failure, or the parser's abort.
RECURSIVE ReadMembers(_, _, _, _)

\* The loop's body on member i once its name and its text are had: f is what
\* from_text returns on the text.
ReadMember(platform, zip, i, files, f) ==
    IF platform = None THEN Aborted
    ELSE IF f.st = "panic" THEN Aborted
    ELSE IF f.st = "err" THEN [st |-> "err", e |-> "from_text"]
    ELSE ReadMembers(platform, zip, i + 1, Insert(files, zip[i].name, f.out))

ReadMembers(platform, zip, i, files) ==
    IF i > Len(zip) THEN [st |-> "ok", out |-> files]
    ELSE IF zip[i].name = BadName THEN [st |-> "err", e |-> "couldn't parse a file's name"]
    ELSE IF zip[i].bytes = NotUtf8
        THEN [st |-> "err", e |-> "couldn't turn the bytes into a String"]
    ELSE ReadMember(platform, zip, i, files, Files[zip[i].bytes])

\* The active file name FinishedFetchBinary picks: the last of the first
\* identifier, or else of the second, or else of the third, unwrapped.
ActiveFilename(signal, nse, sae) ==
    IF signal # None THEN signal
    ELSE IF nse # None THEN nse
    ELSE sae

\* FinishedFetchBinary after the loop over the members.
FinishedFetchBinaryFiles(m, r) ==
    IF r.st = "panic" THEN Aborted
    ELSE IF r.st = "err" THEN Failed(m, r.e)
    ELSE IF DOMAIN r.out = {} THEN Failed(m, "no files in zip")
    ELSE IF ActiveFilename(last_for_app_id(r.out, AppIds[1]), last_for_app_id(r.out, AppIds[2]),
                           last_for_app_id(r.out, AppIds[3])) = None THEN Aborted
    ELSE Done([m EXCEPT !.state =
                 Ready(Multiple(r.out,
                     ActiveFilename(last_for_app_id(r.out, AppIds[1]),
                                    last_for_app_id(r.out, AppIds[2]),
                                    last_for_app_id(r.out, AppIds[3]))[1]))])

\* The data of a finished fetch: the failure of the fetch, bytes that are not a
\* zip archive, the members of an archive, a text.
FetchFailed == [st |-> "err"]

NotAZip == [st |-> "ok", zip |-> None]

Zip(members) == [st |-> "ok", zip |-> Some(members)]

Text(text) == [st |-> "ok", text |-> text]

\* Msg::FinishedFetchBinary(data)
FinishedFetchBinary(m, data) ==
    IF data = FetchFailed THEN Failed(m, "fetching debug log finished unsuccessfully")
    ELSE IF data = NotAZip THEN Failed(m, "couldn't read the debug log file as a zip")
    ELSE FinishedFetchBinaryFiles(m, ReadMembers(m.platform, data.zip[1], 1, <<>>))

\* FinishedFetchText once the text is had: f is what from_text returns on it.
FinishedFetchTextFile(m, f) ==
    IF m.platform = None THEN Aborted
    ELSE IF f.st = "panic" THEN Aborted
    ELSE IF f.st = "err" THEN Failed(m, "from_text")
    ELSE Done([m EXCEPT !.state = Ready(Single(f.out))])

\* Msg::FinishedFetchText(data)
FinishedFetchText(m, data) ==
    IF data = FetchFailed THEN Failed(m, "fetching debug log finished unsuccessfully")
    ELSE FinishedFetchTextFile(m, Files[data.text])

\* Msg::UpdateActiveFile(filename)
UpdateActiveFile(m, filename) ==
    IF m.state.tag = "Ready" /\ m.state.object.kind = "Multiple"
        THEN Done([m EXCEPT !.state.object.active_filename = filename])
    ELSE Done(m)

\* The URLs a user may enter: the URL of an iOS debug log, of another platform's,
\* and text that is not the URL of a debug log; and the platform of each.
IosUrl == "https://debuglogs.org/ios.zip"

AndroidUrl == "https://debuglogs.org/android"

Urls == {"", IosUrl, AndroidUrl}

Platform(url) == IF url = IosUrl THEN "Ios" ELSE "Android"

\* Msg::Start once the URL is parsed: the fetch is started, or cannot be.
StartFetch(m, started) ==
    IF started THEN Done([m EXCEPT !.state = Fetching])
    ELSE Failed(m, "failed to start fetching debug log")

\* Msg::Start
StartMsg(m, started) ==
    IF m.state.tag = "Fetching" THEN Done(m)
    ELSE IF m.debug_log_url = ""
        THEN Failed([m EXCEPT !.tab = "Information", !.pending_query = DefaultSearchQuery,
                              !.active_query = DefaultSearchQuery],
                    "failed to parse the debug log URL")
    ELSE StartFetch([m EXCEPT !.tab = "Information", !.pending_query = DefaultSearchQuery,
                              !.active_query = DefaultSearchQuery,
                              !.platform = Some(Platform(m.debug_log_url))], started)

\* The levels a minimum level may be set to, and text that is no level.
LogLevels == {"Error", "Debug"}

NoLevel == "no level"

\* Msg::UpdateMinLogLevel(value): value.parse().unwrap()
UpdateMinLogLevel(m, value) ==
    IF value \notin LogLevels THEN Aborted
    ELSE Done([m EXCEPT !.pending_query.min_log_level = value])

\* Model::update_inner on the other messages.
UpdateUrl(m, value) == Done([m EXCEPT !.debug_log_url = value])

UpdateTab(m, tab) == Done([m EXCEPT !.tab = tab])

UpdateQuery(m, value) == Done([m EXCEPT !.pending_query.string = value])

UpdateUiExpanded(m) == Done([m EXCEPT !.ui_expanded = ~m.ui_expanded])

ApplySearchQuery(m) == Done([m EXCEPT !.active_query = m.pending_query])

\* Model::update: the model after update_inner, its state Error where update_inner
\* failed.
update(r) ==
    IF r.st = "panic" THEN Aborted
    ELSE IF r.st = "err" THEN Done([r.model EXCEPT !.state = Error(r.e)])
    ELSE r

\* Model::active_file: the file, or the abort of unwrap and of panic!.
active_file(m) ==
    IF m.state.tag # "Ready" THEN Aborted
    ELSE IF m.state.object.kind = "Single" THEN [st |-> "ok", out |-> m.state.object.file]
    ELSE IF m.state.object.active_filename \notin DOMAIN m.state.object.files THEN Aborted
    ELSE [st |-> "ok", out |-> m.state.object.files[m.state.object.active_filename]]

----------------------------------------------------------------------------
(* The state machine: a text is chosen, then one recognizer is applied to  *)
(* it and its outcome recorded.                                            *)

\* All texts made of at most n pieces of P.
Pieces(P, n) == {Concat(ps) : ps \in Texts(P, n)}

HeaderChars == {"=", " ", "\t", "a"}

HeaderInputs(n) == Texts(HeaderChars, n)

KeyChars == {"k", "-", ":", " ", NL}

KeyInputs(n) == Texts(KeyChars, n)

\* What a value is made of: buckets, separators, colons, space and prose.
BodyPieces == {<<"1", ":", "2">>, <<"*", ":", "5">>, <<",">>, <<":">>, <<" ">>, <<"a">>}

Bodies(n) == Pieces(BodyPieces, n)

\* What follows a value: nothing, a newline, a pipe, with or without more text.
Followers == {<<>>, <<NL>>, <<"|">>, <<NL, "a">>, <<"|", " ", "a">>}

InfoHead == <<"k", ":", " ">>

Markers == {<<>>, Enabled, Disabled}

InfoInputs(n) == {InfoHead \o m \o b \o f : m \in Markers, b \in Bodies(n), f \in Followers}

BucketInputs(n) == {b \o f : b \in Bodies(n), f \in Followers}

\* Digit runs a timestamp field may hold: in range, out of the calendar's range,
\* and at and just above i32::MAX and u32::MAX.
Runs ==
    {<<"1">>, <<"0", "1">>, <<"1", "3">>, <<"6", "0">>,
     I32Max, <<"2", "1", "4", "7", "4", "8", "3", "6", "4", "8">>,
     U32Max, <<"4", "2", "9", "4", "9", "6", "7", "2", "9", "6">>}

\* The separator the iOS timestamp has after its i-th field.
SepAfter(i) == IF i <= 2 THEN <<"/">> ELSE IF i = 3 THEN <<" ">> ELSE <<":">>

RECURSIVE Stamp(_, _)
Stamp(f, i) ==
    IF i > Len(f) THEN <<>>
    ELSE f[i] \o (IF i = Len(f) THEN <<>> ELSE SepAfter(i) \o Stamp(f, i + 1))

\* Up to seven fields, at most k of them other than "1".
FieldLists(k) ==
    UNION {UNION {{[i \in 1..n |-> IF i \in O THEN g[i] ELSE <<"1">>] :
                      g \in [O -> Runs \ {<<"1">>}]} :
                  O \in {X \in SUBSET (1..n) : Cardinality(X) <= k}} :
           n \in 0..7}

DateInputs(k) == {Stamp(f, 1) \o e : f \in FieldLists(k), e \in {<<>>, <<":">>, <<" ", "x">>}}

\* A well-formed iOS timestamp, and one whose month no calendar has.
Stamp1 == Stamp([i \in 1..7 |-> <<"1">>], 1)

Stamp13 == Stamp([i \in 1..7 |-> IF i = 2 THEN <<"1", "3">> ELSE <<"1">>], 1)

\* A timestamp, then up to n characters that are glyph characters or a letter,
\* then the rest of a record.
LevelInputs(n) ==
    {Stamp1 \o sp \o g \o e :
        sp \in {<<>>, <<" ">>},
        g \in Texts(GlyphChars \cup {"a"}, n),
        e \in {<<>>, <<" ", "a">>, <<" ", "[", "f", ":", "1", "]", " ">>}}

\* A timestamp, at most one glyph, and a tag opened or not, then up to n
\* characters of what a tag and a message are made of.
MetaInputs(n) ==
    {Stamp1 \o sp1 \o g \o sp2 \o open \o e :
        sp1 \in {<<>>, <<" ">>},
        g \in {<<>>, <<Blue>>, <<Green>>, <<Yellow>>, <<Orange>>, <<Heart, Vs16>>},
        sp2 \in {<<>>, <<" ">>},
        open \in {<<>>, <<"[", "f", ":", "1">>},
        e \in Texts({" ", "]", ":", "s", NL}, n)}

MessageInputs(n) == Pieces({<<"a">>, <<" ">>, <<NL>>, Stamp1, Stamp13}, n)

\* A second timestamp, and the head of a record that has it, a glyph and a tag.
Stamp2 == Stamp([i \in 1..7 |-> <<"2">>], 1)

Head2 == Stamp2 \o <<" ", Yellow, " ", "[", "f", ":", "1", "]", " ">>

\* White space or none, then up to n pieces of records.
ContentInputs(n) ==
    {lead \o body : lead \in {<<>>, <<NL, " ">>},
                    body \in Pieces({Stamp1, Head2, <<" ">>, <<"a">>, <<NL>>, <<Green>>}, n)}

Start(S) ==
    /\ input \in S
    /\ pc = "start"
    /\ result = Err
    /\ model = create

Apply(name, r) ==
    /\ pc = "start"
    /\ pc' = name
    /\ result' = r
    /\ UNCHANGED <<input, model>>

SectionHeader == Apply("section_header", section_header(input))

BucketedFlagStep == Apply("bucketed_flag", bucketed_flag(input))

KeyMaybeEnabledValue == Apply("key_maybe_enabled_value", key_maybe_enabled_value(input))

NaiveDateTime == Apply("naive_date_time", ios_date_time(input))

Metadata == Apply("metadata", metadata(input))

Message == Apply("message", message("metadata", input))

ContentStep == Apply("content", content(input))

\* The archives of at most n members.
Members == {Member(name, bytes) : name \in LogFilenames \cup {BadName},
                                  bytes \in FileTexts \cup {NotUtf8}}

Archives(n) == Texts(Members, n)

\* A message is delivered to Model::update: the model is as update leaves it, or
\* the program has aborted.
Updated(u) ==
    /\ pc = "start"
    /\ IF u.st = "panic" THEN pc' = "panic" /\ UNCHANGED model
       ELSE model' = u.model /\ UNCHANGED pc
    /\ UNCHANGED <<input, result>>

Deliver(r) == Updated(update(r))

\* The model while the archive of an iOS debug log is fetched.
FetchingIos ==
    [create EXCEPT !.state = Fetching, !.platform = Some("Ios"), !.debug_log_url = IosUrl]

\* One archive is fetched: Model::update on FinishedFetchBinary, once.
Fetched(u) ==
    /\ pc = "start"
    /\ pc' = IF u.st = "panic" THEN "panic" ELSE "FinishedFetchBinary"
    /\ model' = IF u.st = "panic" THEN model ELSE u.model
    /\ UNCHANGED <<input, result>>

FetchBinary == Fetched(update(FinishedFetchBinary(model, Zip(input))))

OnUpdateUrl == \E value \in Urls : Deliver(UpdateUrl(model, value))

OnStart == \E started \in BOOLEAN : Deliver(StartMsg(model, started))

\* The fetch task held by State::Fetching reports its end: text for the other
\* platforms, an archive for iOS.
OnFinishedFetchText ==
    /\ model.state.tag = "Fetching" /\ model.platform # Some("Ios")
    /\ \E data \in {Text(text) : text \in FileTexts} \cup {FetchFailed} :
          Deliver(FinishedFetchText(model, data))

OnFinishedFetchBinary ==
    /\ model.state.tag = "Fetching" /\ model.platform = Some("Ios")
    /\ \E data \in {Zip(members) : members \in Archives(MaxMembers)}
                     \cup {FetchFailed, NotAZip} :
          Deliver(FinishedFetchBinary(model, data))

OnUpdateActiveFile == \E filename \in LogFilenames : Deliver(UpdateActiveFile(model, filename))

OnUpdateTab == \E tab \in Tabs : Deliver(UpdateTab(model, tab))

OnUpdateMinLogLevel ==
    \E value \in LogLevels \cup {NoLevel} : Deliver(UpdateMinLogLevel(model, value))

OnUpdateQuery == \E value \in {"", "q"} : Deliver(UpdateQuery(model, value))

OnUpdateUiExpanded == Deliver(UpdateUiExpanded(model))

OnApplySearchQuery == Deliver(ApplySearchQuery(model))

InitHeader == Start(HeaderInputs(MaxHeaderLen))

NextHeader == SectionHeader

SpecHeader == InitHeader /\ [][NextHeader]_vars

InitKey == Start(KeyInputs(MaxKeyLen))

NextKey == KeyMaybeEnabledValue

SpecKey == InitKey /\ [][NextKey]_vars

InitInfo == Start(InfoInputs(MaxBodyPieces))

NextInfo == KeyMaybeEnabledValue

SpecInfo == InitInfo /\ [][NextInfo]_vars

InitBucket == Start(BucketInputs(MaxBodyPieces))

NextBucket == BucketedFlagStep

SpecBucket == InitBucket /\ [][NextBucket]_vars

InitDate == Start(DateInputs(MaxOdd))

NextDate == NaiveDateTime

SpecDate == InitDate /\ [][NextDate]_vars

InitLevel == Start(LevelInputs(MaxGlyphs))

NextLevel == Metadata

SpecLevel == InitLevel /\ [][NextLevel]_vars

InitMeta == Start(MetaInputs(MaxTagTail))

NextMeta == Metadata

SpecMeta == InitMeta /\ [][NextMeta]_vars

InitMessage == Start(MessageInputs(MaxMessagePieces))

NextMessage == Message

SpecMessage == InitMessage /\ [][NextMessage]_vars

InitContent == Start(ContentInputs(MaxContentPieces))

NextContent == ContentStep

SpecContent == InitContent /\ [][NextContent]_vars

InitModel == Start({<<>>}) /\ FilesAreParsed

NextModel ==
    \/ OnUpdateUrl
    \/ OnStart
    \/ OnFinishedFetchText
    \/ OnFinishedFetchBinary
    \/ OnUpdateActiveFile
    \/ OnUpdateTab
    \/ OnUpdateMinLogLevel
    \/ OnUpdateQuery
    \/ OnUpdateUiExpanded
    \/ OnApplySearchQuery

SpecModel == InitModel /\ [][NextModel]_vars

InitBatch ==
    /\ input \in Archives(MaxBatch)
    /\ pc = "start"
    /\ result = Err
    /\ model = FetchingIos

NextBatch == FetchBinary

SpecBatch == InitBatch /\ [][NextBatch]_vars

----------------------------------------------------------------------------
(* What the claims speak of, read off the input text alone. *)

LeadLen(s) == SpanLen(s, {"="}, TRUE)

RECURSIVE TrailLen(_)
TrailLen(s) ==
    IF s = <<>> \/ s[Len(s)] # "=" THEN 0 ELSE 1 + TrailLen(Take(s, Len(s) - 1))

\* Position (0-based) of the first ": " of the text, or -1.
DelimAt(s) == FindFrom(s, <<":", " ">>, 0)

KeyText(s) == Take(s, DelimAt(s))

\* The inputs whose key is refused: a leading "--", no delimiter, or a newline
\* before the first delimiter.
KeyRejected(s) ==
    \/ StartsWith(s, <<"-", "-">>)
    \/ DelimAt(s) < 0
    \/ Contains(KeyText(s), NL)

AfterDelim(s) == Drop(s, DelimAt(s) + 2)

HasMarker(s) == StartsWith(AfterDelim(s), Enabled) \/ StartsWith(AfterDelim(s), Disabled)

AfterMarker(s) ==
    IF StartsWith(AfterDelim(s), Enabled) THEN Drop(AfterDelim(s), Len(Enabled))
    ELSE IF StartsWith(AfterDelim(s), Disabled) THEN Drop(AfterDelim(s), Len(Disabled))
    ELSE AfterDelim(s)

\* The value text of a line: what follows the marker and the horizontal space
\* after it, up to the next newline or pipe.
ValueText(s) ==
    LET a == Space0(AfterMarker(s))
    IN  Take(a, SpanLen(a, {NL, "|"}, FALSE))

\* What follows the value text.
ValueFollower(s) ==
    LET a == Space0(AfterMarker(s))
    IN  Drop(a, SpanLen(a, {NL, "|"}, FALSE))

IsDigits(v) == v # <<>> /\ \A i \in 1..Len(v) : v[i] \in Digits

\* A country code as bucket takes it: any characters but ':' and newline.
IsCode(c) == c # <<>> /\ \A i \in 1..Len(c) : c[i] \notin {":", NL}

IsPair(t) ==
    \E i \in 1..Len(t) : t[i] = ":" /\ IsCode(Take(t, i - 1)) /\ IsDigits(Drop(t, i))

\* t is pair ("," pair)*
RECURSIVE IsList(_)
IsList(t) ==
    \E i \in 1..Len(t) :
        /\ IsPair(Take(t, i))
        /\ i = Len(t) \/ (t[i + 1] = "," /\ IsList(Drop(t, i + 1)))

\* The segments of t between its commas.
RECURSIVE Segments(_)
Segments(t) ==
    LET n == SpanLen(t, {","}, FALSE)
    IN  IF n = Len(t) THEN <<t>> ELSE <<Take(t, n)>> \o Segments(Drop(t, n + 1))

EverySegmentIsPair(t) == \A i \in 1..Len(Segments(t)) : IsPair(Segments(t)[i])

\* The text a bucket list stands for: code:value joined by commas.
RECURSIVE Render(_)
Render(bs) ==
    IF bs = <<>> THEN <<>>
    ELSE Head(bs).country_code \o <<":">> \o Head(bs).value
         \o (IF Len(bs) = 1 THEN <<>> ELSE <<",">> \o Render(Tail(bs)))

\* Value v is a decoding of value text t.
Decodes(v, t) ==
    \/ v.kind = "Generic" /\ v.text = Trim(t)
    \/ v.kind = "BucketedFlag" /\ v.buckets # <<>> /\ Render(v.buckets) = t

\* The maximal digit runs of a text, in order.
RECURSIVE DigitRuns(_)
DigitRuns(s) ==
    LET skip == Drop(s, SpanLen(s, Digits, FALSE))
        n    == SpanLen(skip, Digits, TRUE)
    IN  IF skip = <<>> THEN <<>> ELSE <<Take(skip, n)>> \o DigitRuns(Drop(skip, n))

\* Some timestamp field (the year as i32, the others as u32) is too large.
FieldTooLarge(s) ==
    \E i \in 1..Len(DigitRuns(s)) :
        i <= 7 /\ ~Fits(DigitRuns(s)[i], IF i = 1 THEN I32Max ELSE U32Max)

\* k characters in, the text is at the start of a line or at its end.
IsLineStart(s, k) == k = 0 \/ k = Len(s) \/ s[k] = NL

\* Where message is to stop: the lookahead matches what is left, or nothing is.
StopsAt(s, k) == k = Len(s) \/ metadata(Drop(s, k)).st = "ok"

StripOneNewline(t) == IF t # <<>> /\ t[Len(t)] = NL THEN Take(t, Len(t) - 1) ELSE t

\* What follows the timestamp and the horizontal space after it.
AfterStamp(s) == Space0(Drop(s, Len(Stamp1)))

\* The run of glyph characters a record has where its severity marker is.
GlyphRun(s) == Take(AfterStamp(s), SpanLen(AfterStamp(s), GlyphChars, TRUE))

\* What follows the glyph run and the horizontal space after it.
AfterGlyph(s) == Space0(Drop(AfterStamp(s), Len(GlyphRun(s))))

\* The severity table: five glyphs, five levels.
SeverityOf(g) ==
    CASE g = <<Blue>> -> "Verbose" [] g = <<Green>> -> "Debug" [] g = <<Yellow>> -> "Info"
      [] g = <<Orange>> -> "Warn" [] g = <<Heart, Vs16>> -> "Error" [] OTHER -> "none"

IsGlyph(g) == SeverityOf(g) # "none"

\* t begins with the tag [file:line] without a symbol, closed and followed by
\* ':' or ' ': the length of file and of line, or <<>> when it does not.
PlainTag(t) ==
    {<<i, j>> \in (1..Len(t)) \X (1..Len(t)) :
        /\ t[1] = "[" /\ i + j + 4 <= Len(t)
        /\ ~Contains(SubSeq(t, 2, i + 1), ":") /\ t[i + 2] = ":"
        /\ \A n \in (i + 3)..(i + 2 + j) : t[n] \notin {" ", "]"}
        /\ t[i + 3 + j] = "]" /\ t[i + 4 + j] \in {":", " "}}

----------------------------------------------------------------------------
(* Claims *)

\* C1: when key_maybe_enabled_value finds a key but neither a marker nor a value,
\* it returns a parse failure (it neither builds a KeyValue nor aborts).
C1_NoValueIsFailure ==
    (/\ pc = "key_maybe_enabled_value"
     /\ ~KeyRejected(input)
     /\ ~HasMarker(input)
     /\ ValueText(input) = <<>>)
    => result.st = "err"

\* C2: bucketed_flag succeeds exactly on a comma-separated list of code:digits
\* pairs followed by a newline, a pipe or the end of input, and leaves what
\* follows the list unconsumed.
C2_ListThenNewlinePipeOrEnd ==
    pc = "bucketed_flag" =>
        /\ result.st = "ok" <=>
              \E i \in 1..Len(input) :
                  /\ IsList(Take(input, i))
                  /\ i = Len(input) \/ input[i + 1] \in {NL, "|"}
        /\ result.st = "ok" =>
              /\ Render(result.out) \o result.rest = input
              /\ result.rest = <<>> \/ result.rest[1] \in {NL, "|"}

\* C3: the value is a BucketedFlag only if every comma-separated segment of the
\* value text is code:digits; any other value text is Generic, holding the text up
\* to the next newline or pipe, trimmed, with that newline or pipe left unconsumed.
C3_BucketedOnlyIfEverySegment ==
    (pc = "key_maybe_enabled_value" /\ result.st = "ok" /\ result.out.value # None) =>
        LET v == result.out.value[1]
        IN  /\ v.kind = "BucketedFlag" => EverySegmentIsPair(ValueText(input))
            /\ ~EverySegmentIsPair(ValueText(input)) =>
                  /\ v = Generic(Trim(ValueText(input)))
                  /\ result.rest = ValueFollower(input)

\* C4: a line with a marker yields KeyEnabledValue(key, marker, value), the value
\* being None exactly when no value text follows the marker and otherwise the
\* decoded value text (buckets in order); a line without a marker and with value
\* text yields KeyValue.
C4_MarkerAndValue ==
    (pc = "key_maybe_enabled_value" /\ ~KeyRejected(input)) =>
        LET t == ValueText(input)
            e == result.out
        IN  /\ HasMarker(input) =>
                  /\ result.st = "ok"
                  /\ e.kind = "KeyEnabledValue"
                  /\ e.key = Trim(KeyText(input))
                  /\ e.enabled = StartsWith(AfterDelim(input), Enabled)
                  /\ e.value = None <=> t = <<>>
                  /\ t # <<>> => Decodes(e.value[1], t)
                  /\ result.rest = ValueFollower(input)
            /\ (~HasMarker(input) /\ t # <<>>) =>
                  /\ result.st = "ok"
                  /\ e.kind = "KeyValue"
                  /\ e.key = Trim(KeyText(input))
                  /\ e.value # None /\ Decodes(e.value[1], t)
                  /\ result.rest = ValueFollower(input)

\* C4 witness: `k: enabled 1:2,*:5` has been decoded, to both buckets in order.
C4_Witness ==
    /\ pc = "key_maybe_enabled_value"
    /\ input = InfoHead \o Enabled \o <<" ", "1", ":", "2", ",", "*", ":", "5">>
    /\ result = Ok(KeyEnabledValue(<<"k">>, TRUE,
                     Some(BucketedFlag(<<Bucket(<<"1">>, <<"2">>), Bucket(<<"*">>, <<"5">>)>>))),
                   <<>>)

\* C5 as stated: inputs that begin with "--" or have a newline before the first
\* ": " fail; otherwise the key is exactly the text before the first ": ".
C5_KeyIsTextBeforeDelimiter ==
    pc = "key_maybe_enabled_value" =>
        /\ StartsWith(input, <<"-", "-">>) => result.st = "err"
        /\ (DelimAt(input) >= 0 /\ Contains(KeyText(input), NL)) => result.st = "err"
        /\ result.st = "ok" => result.out.key = KeyText(input)

\* C5 amended: inputs that begin with "--", have no ": " or have a newline before
\* the first ": " fail; the key of every entry produced is the text before the
\* first ": " with the white space around it trimmed.
C5_KeyIsTrimmedTextBeforeDelimiter ==
    pc = "key_maybe_enabled_value" =>
        /\ KeyRejected(input) => result.st = "err"
        /\ result.st = "ok" => ~KeyRejected(input) /\ result.out.key = Trim(KeyText(input))

\* C5 witness: an entry was produced whose key had space around it.
C5_Witness ==
    /\ pc = "key_maybe_enabled_value"
    /\ result.st = "ok"
    /\ KeyText(input) = <<" ", "k", " ">>
    /\ result.out.key = <<"k">>

\* C6: with m, n >= 1 decoration characters around a non-empty name without '=',
\* section_header yields the trimmed name and an empty remainder; with no
\* decoration character on either side it fails.
C6_SectionHeader ==
    pc = "section_header" =>
        LET m   == LeadLen(input)
            n   == TrailLen(input)
            mid == SubSeq(input, m + 1, Len(input) - n)
        IN  /\ (m >= 1 /\ n >= 1 /\ m + n < Len(input) /\ ~Contains(mid, "="))
                  => result = Ok(Trim(mid), <<>>)
            /\ m = 0 => result.st = "err"
            /\ (m < Len(input) /\ ~Contains(Drop(input, m), "=")) => result.st = "err"

\* C6 witness: one decoration character before the name and two after it.
C6_Witness ==
    /\ pc = "section_header"
    /\ input = <<"=", " ", "a", "\t", "=", "=">>
    /\ result = Ok(<<"a">>, <<>>)

\* C7: when a digit run of a timestamp is too large for its integer type,
\* naive_date_time returns a failure to its caller (it does not abort).
C7_TooLargeFieldIsFailure ==
    (pc = "naive_date_time" /\ FieldTooLarge(input)) => result.st = "err"

\* C8: message takes whole lines and stops at the first line start where the
\* lookahead matches what is left (leaving it unconsumed) or where nothing is
\* left; its result is the text taken with one terminating newline stripped (the
\* lines joined by newlines, blank lines kept).  It fails on no input, and it
\* aborts only where the lookahead itself does.
C8_MessageStopsAtNextRecord ==
    pc = "message" =>
        /\ result.st # "err"
        /\ result.st = "ok" =>
              LET k == Len(input) - Len(result.rest)
              IN  /\ result.rest = Drop(input, k)
                  /\ IsLineStart(input, k) /\ StopsAt(input, k)
                  /\ \A j \in 0..(k - 1) : IsLineStart(input, j) => ~StopsAt(input, j)
                  /\ result.out = StripOneNewline(Take(input, k))
        /\ result.st = "panic" =>
              \E j \in 0..Len(input) :
                  IsLineStart(input, j) /\ metadata(Drop(input, j)).st = "panic"

\* C8 witness: two lines, the second blank, then the next record.
C8_Witness ==
    /\ pc = "message"
    /\ input = <<"a", NL, NL>> \o Stamp1 \o <<"a">>
    /\ result = Ok(<<"a", NL>>, Stamp1 \o <<"a">>)

\* C9: in metadata a record without a glyph has level None, a record with one of
\* the five glyphs has that glyph's level, a record without a bracketed tag has
\* no structured metadata, and a record whose tag is [file:line] without a symbol
\* has a tag whose symbol is empty.
C9_OptionalPartsAreIndependent ==
    pc = "metadata" =>
        LET g == GlyphRun(input)
            t == AfterGlyph(input)
        IN  /\ result.st = "ok"
            /\ g = <<>> => result.out.lvl = None
            /\ IsGlyph(g) => result.out.lvl = Some(SeverityOf(g))
            /\ (t = <<>> \/ t[1] # "[") => result.out.meta = None
            /\ \A ij \in PlainTag(t) :
                  result.out.meta =
                      Some(LogEntryMetadata(SubSeq(t, 2, ij[1] + 1),
                                            SubSeq(t, ij[1] + 3, ij[1] + 2 + ij[2]), <<>>))

\* C10: text after the timestamp that is not exactly one severity glyph is not
\* taken as a severity marker: the parse does not abort, the level is None and
\* the text is left for the rest of the grammar.
C10_NoGlyphNoMarker ==
    (pc = "metadata" /\ ~IsGlyph(GlyphRun(input))) =>
        /\ result.st = "ok"
        /\ result.out.lvl = None
        /\ result.out.meta = None => result.rest = AfterStamp(input)

\* The tag a text begins with when the terminator after its closing bracket is
\* optional: '[', file up to ':', line up to a space or ']', the symbol up to the
\* closing ']' on the same line, then ':' or ' ' consumed when present.
TagWithOptionalTerminator(t) ==
    LET open  == Tag(<<"[">>, t)
        file  == TakeUntil(<<":">>, open.rest)
        line  == IsNot({" ", "]"}, Drop(file.rest, 1))
        sym   == TakeUntil(<<"]">>, Space0(line.rest))
        after == Drop(sym.rest, 1)
    IN  IF open.st # "ok" THEN Err
        ELSE IF file.st # "ok" THEN Err
        ELSE IF line.st # "ok" THEN Err
        ELSE IF sym.st # "ok" \/ Contains(sym.out, NL) THEN Err
        ELSE Ok(LogEntryMetadata(file.out, line.out, sym.out),
                IF after # <<>> /\ after[1] \in {":", " "} THEN Tail(after) ELSE after)

\* C11: in metadata a bracketed tag [file:line] or [file:line symbol] is the
\* record's tag whether or not a terminator follows its closing bracket: the ':'
\* or space after ']' is consumed when present, and the symbol is the text up to
\* the closing bracket.
C11_TagTerminatorIsOptional ==
    (pc = "metadata" /\ TagWithOptionalTerminator(AfterGlyph(input)).st = "ok") =>
        /\ result.st = "ok"
        /\ result.out.meta = Some(TagWithOptionalTerminator(AfterGlyph(input)).out)
        /\ result.rest = TagWithOptionalTerminator(AfterGlyph(input)).rest

\* A text begins with the timestamp of a record.
StartsRecord(t) == StartsWith(t, Stamp1) \/ StartsWith(t, Stamp2)

\* The line starts of t where a record begins, as numbers of characters before.
RecordStarts(t) ==
    {k \in 0..(Len(t) - 1) : (k = 0 \/ t[k] = NL) /\ StartsRecord(Drop(t, k))}

Least(S) == CHOOSE k \in S : \A j \in S : k <= j

\* The texts of the records of t, each from its start to the next one's.
RECURSIVE Chunks(_, _)
Chunks(t, starts) ==
    IF starts = {} THEN <<>>
    ELSE LET k    == Least(starts)
             more == starts \ {k}
         IN  <<SubSeq(t, k + 1, IF more = {} THEN Len(t) ELSE Least(more))>>
             \o Chunks(t, more)

\* The records of a file's text, after the white space it begins with.
RecordsOf(s) == Chunks(Multispace0(s), RecordStarts(Multispace0(s)))

\* A record is well formed: its timestamp is followed by one glyph or none, and
\* its message does not itself begin with a timestamp (that would be the next
\* record).
WellFormedRecord(c) ==
    /\ GlyphRun(c) = <<>> \/ IsGlyph(GlyphRun(c))
    /\ ~StartsRecord(Space0(metadata(c).rest))

\* A text is white space and then K >= 0 well-formed records, nothing else.
WellFormedRecords(s) ==
    /\ Multispace0(s) = <<>> \/ 0 \in RecordStarts(Multispace0(s))
    /\ \A i \in 1..Len(RecordsOf(s)) : WellFormedRecord(RecordsOf(s)[i])

C13_NoContentFromAPrefix ==
    pc = "content" =>
        /\ result.st = "ok" => result.rest = <<>>
        /\ (Multispace0(input) # <<>> /\ log_entry(Multispace0(input)).st = "err")
               => result.st = "err"

\* The names of the members of an archive.
NamesOf(zip) == {zip[i].name : i \in 1..Len(zip)}

\* The first identifier, in the order Signal, NotificationServiceExtension,
\* ShareAppExtension, that a name of K has.
FirstAppId(K) ==
    AppIds[CHOOSE i \in 1..3 :
              /\ \E k \in K : k.app_id = AppIds[i]
              /\ \A j \in 1..(i - 1) : \A k \in K : k.app_id # AppIds[j]]

\* k is the last name of K, in name order, with the first identifier K has.
IsActiveOf(k, K) ==
    /\ k \in K /\ k.app_id = FirstAppId(K)
    /\ \A j \in K : j.app_id = FirstAppId(K) => FilenameRank(j) <= FilenameRank(k)

\* Member i of an archive fails: its name is no log file name, its content is
\* not UTF-8, or its text is not parsed.
MemberFails(zip, i) ==
    \/ zip[i].name = BadName
    \/ zip[i].bytes = NotUtf8
    \/ Files[zip[i].bytes].st # "ok"

\* C14: after FinishedFetchBinary succeeds the files are the members of the
\* batch, which is not empty, and the active file is the last name, in name
\* order, whose identifier is Signal, or else NotificationServiceExtension, or
\* else ShareAppExtension; a batch of no files is an error and not Ready.
C14_ActiveFileIsLastOfFirstAppId ==
    pc = "FinishedFetchBinary" =>
        /\ input = <<>> => model.state.tag = "Error"
        /\ model.state.tag = "Ready" =>
              /\ model.state.object.kind = "Multiple"
              /\ DOMAIN model.state.object.files = NamesOf(input)
              /\ NamesOf(input) # {}
              /\ IsActiveOf(model.state.object.active_filename, NamesOf(input))

\* C14 witness: two Signal files and a NotificationServiceExtension file that is
\* last in name order; the later Signal file is active.
C14_Witness ==
    /\ pc = "FinishedFetchBinary"
    /\ input = <<Member(LogFilename(AppIds[2], "b"), GoodText),
                 Member(LogFilename(AppIds[1], "b"), GoodText),
                 Member(LogFilename(AppIds[1], "a"), GoodText)>>
    /\ model.state.tag = "Ready"
    /\ model.state.object.active_filename = LogFilename(AppIds[1], "b")

\* C15: where a member of the batch fails, FinishedFetchBinary ends with the
\* model's state Error: it is not Ready, and no member is kept.
C15_FailingMemberIsError ==
    (pc # "start" /\ \E i \in 1..Len(input) : MemberFails(input, i)) =>
        /\ pc = "FinishedFetchBinary"
        /\ model.state.tag = "Error"

\* C16: in every state Ready(Multiple(files, active)) the active name is a key of
\* files, and active_file finds a file.
C16_ActiveIsAKeyOfFiles ==
    (model.state.tag = "Ready" /\ model.state.object.kind = "Multiple") =>
        /\ model.state.object.active_filename \in DOMAIN model.state.object.files
        /\ active_file(model).st = "ok"

====
